---------------------------- MODULE Spec2Model ----------------------------
(***************************************************************************)
(* The Omaha v3 message model of omaha/protocol.go: the record types with  *)
(* their xml struct tags, the constructors NewRequest / NewResponse, the   *)
(* builder methods, and the encoding/xml serialisation that the struct     *)
(* tags select.                                                            *)
(*                                                                         *)
(* Go strings are sequences of code points (<<97>> is "a").  Records live  *)
(* in a heap; a Go pointer is a heap address, 0 is nil.  Element and       *)
(* attribute names, which come from the struct tags, are TLA+ strings.     *)
(***************************************************************************)
EXTENDS Integers, Sequences, FiniteSets, TLC

VARIABLES heap,     \* the allocated records, in allocation order
          calls,    \* the builder calls made so far, with the handle each returned
          nAssign,  \* number of field assignments made through handles
          doc,      \* SpecDecode: the document handed to the decoder
          decoded   \* SpecDecode: what the decoder returned

vars == <<heap, calls, nAssign, doc, decoded>>

\* ------------------------------------------------------------------ bounds
MaxObj == 6
MaxAssign == 1

\* ------------------------------------------------------------- Go strings
Empty == <<>>
S_a == <<97>>                          \* "a"
S_alt == <<97, 60>>                    \* "a<": the "<" must be escaped in XML
S_ff == <<12>>                         \* "\f": not a character XML can hold
S_1 == <<49>>                          \* "1"
S_30 == <<51, 46, 48>>                 \* "3.0"
S_mantle == <<109, 97, 110, 116, 108, 101>>   \* "mantle"
S_0 == <<48>>                          \* "0"
S_true == <<116, 114, 117, 101>>       \* "true"
S_false == <<102, 97, 108, 115, 101>>  \* "false"

\* Values the callers pass and assign.
Strs == {S_alt, S_ff}
Versions == {S_1}
Statuses == {S_a}
\* version.Version, LocalPlatform() and LocalArch() are supplied from outside.
LibVersions == {S_1}
Platforms == {S_a}
Archs == {S_a}

\* The event names given to AddAction.
Events == {S_alt}

\* ------------------------------------------------------------ struct tags
\* One field of a struct: its Go name and type, and what its xml tag says.
\*   type: "string" | "bool" | "uint64" | "ptr" (*of) | "slice" ([]*of)
\*         | "struct" (of, by value) | "xmlname" (xml.Name)
Attr(field, type, name, omitempty) ==
    [field |-> field, type |-> type, of |-> "", name |-> name,
     parents |-> <<>>, attr |-> TRUE, omitempty |-> omitempty]

Elem(field, type, of, name, parents) ==
    [field |-> field, type |-> type, of |-> of, name |-> name,
     parents |-> parents, attr |-> FALSE, omitempty |-> FALSE]

\* AppStatus, UpdateStatus, EventType and EventResult are declared outside
\* protocol.go; they are string-typed wire values.
EnumType == "string"

RequestFields ==
    << Elem("XMLName", "xmlname", "", "request", <<>>),
       Elem("OS", "ptr", "OS", "os", <<>>),
       Elem("Apps", "slice", "App", "app", <<>>),
       Attr("Protocol", "string", "protocol", FALSE),
       Attr("Version", "string", "version", TRUE),
       Attr("IsMachine", "string", "ismachine", TRUE),
       Attr("SessionId", "string", "sessionid", TRUE),
       Attr("UserId", "string", "userid", TRUE),
       Attr("InstallSource", "string", "installsource", TRUE),
       Attr("TestSource", "string", "testsource", TRUE),
       Attr("RequestId", "string", "requestid", TRUE),
       Attr("UpdaterVersion", "string", "updaterversion", TRUE) >>

ResponseFields ==
    << Elem("XMLName", "xmlname", "", "response", <<>>),
       Elem("DayStart", "struct", "DayStart", "daystart", <<>>),
       Elem("Apps", "slice", "App", "app", <<>>),
       Attr("Protocol", "string", "protocol", FALSE),
       Attr("Server", "string", "server", FALSE) >>

DayStartFields ==
    << Attr("ElapsedSeconds", "string", "elapsed_seconds", FALSE) >>

\* Mutant: Version tagged with the name of Id.
AppFields_VersionTaggedAppid ==
    << Elem("Ping", "ptr", "Ping", "ping", <<>>),
       Elem("UpdateCheck", "ptr", "UpdateCheck", "updatecheck", <<>>),
       Elem("Events", "slice", "Event", "event", <<>>),
       Attr("Id", "string", "appid", TRUE),
       Attr("Version", "string", "appid", TRUE),
       Attr("NextVersion", "string", "nextversion", TRUE),
       Attr("Lang", "string", "lang", TRUE),
       Attr("Client", "string", "client", TRUE),
       Attr("InstallAge", "string", "installage", TRUE),
       Attr("Status", EnumType, "status", TRUE),
       Attr("Track", "string", "track", TRUE),
       Attr("FromTrack", "string", "from_track", TRUE),
       Attr("BootId", "string", "bootid", TRUE),
       Attr("MachineID", "string", "machineid", TRUE),
       Attr("OEM", "string", "oem", TRUE) >>

AppFields ==
    << Elem("Ping", "ptr", "Ping", "ping", <<>>),
       Elem("UpdateCheck", "ptr", "UpdateCheck", "updatecheck", <<>>),
       Elem("Events", "slice", "Event", "event", <<>>),
       Attr("Id", "string", "appid", TRUE),
       Attr("Version", "string", "version", TRUE),
       Attr("NextVersion", "string", "nextversion", TRUE),
       Attr("Lang", "string", "lang", TRUE),
       Attr("Client", "string", "client", TRUE),
       Attr("InstallAge", "string", "installage", TRUE),
       Attr("Status", EnumType, "status", TRUE),
       Attr("Track", "string", "track", TRUE),
       Attr("FromTrack", "string", "from_track", TRUE),
       Attr("BootId", "string", "bootid", TRUE),
       Attr("MachineID", "string", "machineid", TRUE),
       Attr("OEM", "string", "oem", TRUE) >>

UpdateCheckFields ==
    << Elem("URLs", "ptr", "URLs", "urls", <<>>),
       Elem("Manifest", "ptr", "Manifest", "manifest", <<>>),
       Attr("TargetVersionPrefix", "string", "targetversionprefix", TRUE),
       Attr("Status", EnumType, "status", TRUE) >>

PingFields ==
    << Attr("LastReportDays", "string", "r", TRUE),
       Attr("Status", "string", "status", TRUE) >>

OSFields ==
    << Attr("Platform", "string", "platform", TRUE),
       Attr("Version", "string", "version", TRUE),
       Attr("ServicePack", "string", "sp", TRUE),
       Attr("Arch", "string", "arch", TRUE) >>

EventFields ==
    << Attr("Type", EnumType, "eventtype", FALSE),
       Attr("Result", EnumType, "eventresult", FALSE),
       Attr("PreviousVersion", "string", "previousversion", TRUE),
       Attr("ErrorCode", "string", "errorcode", TRUE),
       Attr("Status", "string", "status", TRUE) >>

URLsFields ==
    << Elem("URLs", "slice", "URL", "url", <<>>) >>

URLFields ==
    << Attr("CodeBase", "string", "codebase", FALSE) >>

\* Mutant: the version attribute tagged "Version".
ManifestFields_VersionCapital ==
    << Elem("Packages", "slice", "Package", "package", <<"packages">>),
       Elem("Actions", "slice", "Action", "action", <<"actions">>),
       Attr("Version", "string", "Version", FALSE) >>

ManifestFields ==
    << Elem("Packages", "slice", "Package", "package", <<"packages">>),
       Elem("Actions", "slice", "Action", "action", <<"actions">>),
       Attr("Version", "string", "version", FALSE) >>

\* Mutant: required tagged ",omitempty".
PackageFields_RequiredOmitEmpty ==
    << Attr("Hash", "string", "hash", FALSE),
       Attr("Name", "string", "name", FALSE),
       Attr("Size", "uint64", "size", FALSE),
       Attr("Required", "bool", "required", TRUE) >>

PackageFields ==
    << Attr("Hash", "string", "hash", FALSE),
       Attr("Name", "string", "name", FALSE),
       Attr("Size", "uint64", "size", FALSE),
       Attr("Required", "bool", "required", FALSE) >>

\* Mutant: ChromeOSVersion and sha256 tagged ",omitempty" like the fields after them.
ActionFields_OmitEmptyEverywhere ==
    << Attr("Event", "string", "event", FALSE),
       Attr("ChromeOSVersion", "string", "ChromeOSVersion", TRUE),
       Attr("Sha256", "string", "sha256", TRUE),
       Attr("NeedsAdmin", "bool", "needsadmin", FALSE),
       Attr("IsDelta", "bool", "IsDelta", FALSE),
       Attr("DisablePayloadBackoff", "bool", "DisablePayloadBackoff", TRUE),
       Attr("MetadataSignatureRsa", "string", "MetadataSignatureRsa", TRUE),
       Attr("MetadataSize", "string", "MetadataSize", TRUE),
       Attr("Deadline", "string", "deadline", TRUE) >>

ActionFields ==
    << Attr("Event", "string", "event", FALSE),
       Attr("ChromeOSVersion", "string", "ChromeOSVersion", FALSE),
       Attr("Sha256", "string", "sha256", FALSE),
       Attr("NeedsAdmin", "bool", "needsadmin", FALSE),
       Attr("IsDelta", "bool", "IsDelta", FALSE),
       Attr("DisablePayloadBackoff", "bool", "DisablePayloadBackoff", TRUE),
       Attr("MetadataSignatureRsa", "string", "MetadataSignatureRsa", TRUE),
       Attr("MetadataSize", "string", "MetadataSize", TRUE),
       Attr("Deadline", "string", "deadline", TRUE) >>

Kinds == {"Request", "Response", "DayStart", "App", "UpdateCheck", "Ping", "OS",
          "Event", "URLs", "URL", "Manifest", "Package", "Action"}

Fields(kind) ==
    CASE kind = "Request" -> RequestFields
      [] kind = "Response" -> ResponseFields
      [] kind = "DayStart" -> DayStartFields
      [] kind = "App" -> AppFields
      [] kind = "UpdateCheck" -> UpdateCheckFields
      [] kind = "Ping" -> PingFields
      [] kind = "OS" -> OSFields
      [] kind = "Event" -> EventFields
      [] kind = "URLs" -> URLsFields
      [] kind = "URL" -> URLFields
      [] kind = "Manifest" -> ManifestFields
      [] kind = "Package" -> PackageFields
      [] kind = "Action" -> ActionFields

Range(s) == {s[i] : i \in DOMAIN s}

FieldNames(kind) == {f.field : f \in Range(Fields(kind))}

\* The fields of every struct by name, and its attribute and element fields.
FieldByName ==
    [k \in Kinds |-> [n \in FieldNames(k) |-> CHOOSE f \in Range(Fields(k)) : f.field = n]]
AttrFieldsOf == [k \in Kinds |-> {f \in Range(Fields(k)) : f.attr}]
ElemFieldsOf == [k \in Kinds |-> {f \in Range(Fields(k)) : ~f.attr /\ f.type # "xmlname"}]

FieldOf(kind, name) == FieldByName[kind][name]

\* ------------------------------------------------------------ zero values
RECURSIVE Zero(_)
\* The zero value of a struct: what new(T) and &T{} give every field not named.
Zero(kind) ==
    [n \in FieldNames(kind) \cup {"kind"} |->
        IF n = "kind" THEN kind
        ELSE LET f == FieldOf(kind, n) IN
             CASE f.type = "string" -> Empty
               [] f.type = "bool" -> FALSE
               [] f.type = "uint64" -> 0
               [] f.type = "ptr" -> 0
               [] f.type = "slice" -> <<>>
               [] f.type = "struct" -> Zero(f.of)
               [] f.type = "xmlname" -> ""]

\* Evaluated once.
ZeroRequest == Zero("Request")
ZeroResponse == Zero("Response")
ZeroDayStart == Zero("DayStart")
ZeroApp == Zero("App")
ZeroUpdateCheck == Zero("UpdateCheck")
ZeroPing == Zero("Ping")
ZeroOS == Zero("OS")
ZeroEvent == Zero("Event")
ZeroURLs == Zero("URLs")
ZeroURL == Zero("URL")
ZeroManifest == Zero("Manifest")
ZeroPackage == Zero("Package")
ZeroAction == Zero("Action")

With1(r, f1, v1) == [r EXCEPT ![f1] = v1]
With2(r, f1, v1, f2, v2) == [r EXCEPT ![f1] = v1, ![f2] = v2]

\* ------------------------------------------------------------------- heap
Addrs == 1..Len(heap)
OfKind(kind) == {a \in Addrs : heap[a].kind = kind}
Alloc(h, rec) == Append(h, rec)
New(h) == Len(h) + 1          \* the address the next allocation gets

Call(op, recv, args, ret) == [op |-> op, recv |-> recv, args |-> args, ret |-> ret]

\* ----------------------------------------------------------- constructors
\* NewRequest: &Request{Protocol: "3.0", Version: version.Version, OS: &OS{...}}
NewRequestHeap(h, ver, platform, arch) ==
    LET os == With2(ZeroOS, "Platform", platform, "Arch", arch)
        h1 == Alloc(h, os)
        r  == [ZeroRequest EXCEPT !.Protocol = S_30, !.Version = ver,
                                      !.OS = Len(h1)]
    IN Alloc(h1, r)

\* Mutant: DayStart left at its zero value.
NewResponseHeap_NoDayStart(h) ==
    Alloc(h, [ZeroResponse EXCEPT !.Protocol = S_30, !.Server = S_mantle])

\* NewResponse: &Response{Protocol: "3.0", Server: "mantle", DayStart: {"0"}}
NewResponseHeap(h) ==
    Alloc(h, [ZeroResponse EXCEPT !.Protocol = S_30, !.Server = S_mantle,
                                      !.DayStart.ElapsedSeconds = S_0])

\* --------------------------------------------------------------- builders
\* Mutant: the new app put first.
RequestAddAppHeap_Prepend(h, r, id, version) ==
    LET a == New(h)
        h1 == Alloc(h, With2(ZeroApp, "Id", id, "Version", version))
    IN [h1 EXCEPT ![r].Apps = <<a>> \o @]

\* a := &App{Id: id, Version: version}; r.Apps = append(r.Apps, a)
RequestAddAppHeap(h, r, id, version) ==
    LET a == New(h)
        h1 == Alloc(h, With2(ZeroApp, "Id", id, "Version", version))
    IN [h1 EXCEPT ![r].Apps = Append(@, a)]

\* a := &App{Id: id, Status: status}; r.Apps = append(r.Apps, a)
ResponseAddAppHeap(h, r, id, status) ==
    LET a == New(h)
        h1 == Alloc(h, With2(ZeroApp, "Id", id, "Status", status))
    IN [h1 EXCEPT ![r].Apps = Append(@, a)]

\* Mutant: the URLs wrapper allocated with the UpdateCheck.
AddUpdateCheckHeap_EagerURLs(h, a) ==
    LET h1 == Alloc(h, ZeroURLs)
        u == New(h1)
    IN [Alloc(h1, With1(ZeroUpdateCheck, "URLs", Len(h1))) EXCEPT ![a].UpdateCheck = u]

\* a.UpdateCheck = new(UpdateCheck)
AddUpdateCheckHeap(h, a) ==
    LET u == New(h) IN [Alloc(h, ZeroUpdateCheck) EXCEPT ![a].UpdateCheck = u]

\* a.Ping = new(Ping)
AddPingHeap(h, a) ==
    LET p == New(h) IN [Alloc(h, ZeroPing) EXCEPT ![a].Ping = p]

\* Mutant: the event appended twice.
AddEventHeap_AppendsTwice(h, a) ==
    LET e == New(h)
    IN [Alloc(h, ZeroEvent) EXCEPT ![a].Events = Append(Append(@, e), e)]

\* event := new(Event); a.Events = append(a.Events, event)
AddEventHeap(h, a) ==
    LET e == New(h) IN [Alloc(h, ZeroEvent) EXCEPT ![a].Events = Append(@, e)]

\* if u.URLs == nil { u.URLs = new(URLs) }
LazyURLs(h, u) ==
    IF h[u].URLs = 0
    THEN LET w == New(h) IN [Alloc(h, ZeroURLs) EXCEPT ![u].URLs = w]
    ELSE h

\* Mutant: the new URL put first.
AddURLHeap_Prepend(h, u, codebase) ==
    LET h1 == LazyURLs(h, u)
        url == New(h1)
        h2 == Alloc(h1, With1(ZeroURL, "CodeBase", codebase))
    IN [h2 EXCEPT ![h1[u].URLs].URLs = <<url>> \o @]

\* url := &URL{CodeBase: codebase}; u.URLs.URLs = append(u.URLs.URLs, url)
AddURLHeap(h, u, codebase) ==
    LET h1 == LazyURLs(h, u)
        url == New(h1)
        h2 == Alloc(h1, With1(ZeroURL, "CodeBase", codebase))
    IN [h2 EXCEPT ![h1[u].URLs].URLs = Append(@, url)]

\* Mutant: the new manifest takes over the packages of the one it replaces.
AddManifestHeap_KeepsPackages(h, u, version) ==
    LET m == New(h)
        old == IF h[u].Manifest = 0 THEN <<>> ELSE h[h[u].Manifest].Packages
    IN [Alloc(h, With2(ZeroManifest, "Version", version, "Packages", old))
           EXCEPT ![u].Manifest = m]

\* u.Manifest = &Manifest{Version: version}
AddManifestHeap(h, u, version) ==
    LET m == New(h)
    IN [Alloc(h, With1(ZeroManifest, "Version", version)) EXCEPT ![u].Manifest = m]

\* p := &Package{}; m.Packages = append(m.Packages, p)
AddPackageHeap(h, m) ==
    LET p == New(h) IN [Alloc(h, ZeroPackage) EXCEPT ![m].Packages = Append(@, p)]

\* a := &Action{Event: event}; m.Actions = append(m.Actions, a)
AddActionHeap(h, m, event) ==
    LET a == New(h)
    IN [Alloc(h, With1(ZeroAction, "Event", event)) EXCEPT ![m].Actions = Append(@, a)]

\* ------------------------------------------------- encoding/xml: Marshal
\* The serialised document is a tree of elements
\*   [name, attrs: sequence of [name, value], children: sequence of elements]
\* with every attribute value in its escaped form, as written between quotes.
Element(name, attrs, children) ==
    [name |-> name, attrs |-> attrs, children |-> children]

\* The Char production of XML 1.0.
InCharacterRange(r) ==
    \/ r = 9 \/ r = 10 \/ r = 13
    \/ (r >= 32 /\ r <= 55295)
    \/ (r >= 57344 /\ r <= 65533)
    \/ (r >= 65536 /\ r <= 1114111)

\* What the encoder writes for one code point of an attribute value: the
\* eight escapes, U+FFFD for what XML cannot hold, the code point otherwise.
EscapeRune(r) ==
    CASE r = 34 -> <<38, 35, 51, 52, 59>>        \* &#34;
      [] r = 39 -> <<38, 35, 51, 57, 59>>        \* &#39;
      [] r = 38 -> <<38, 97, 109, 112, 59>>      \* &amp;
      [] r = 60 -> <<38, 108, 116, 59>>          \* &lt;
      [] r = 62 -> <<38, 103, 116, 59>>          \* &gt;
      [] r = 9  -> <<38, 35, 120, 57, 59>>       \* &#x9;
      [] r = 10 -> <<38, 35, 120, 65, 59>>       \* &#xA;
      [] r = 13 -> <<38, 35, 120, 68, 59>>       \* &#xD;
      [] OTHER  -> IF InCharacterRange(r) THEN <<r>> ELSE <<65533>>

RECURSIVE EscapeString(_)
EscapeString(s) ==
    IF s = <<>> THEN <<>> ELSE EscapeRune(Head(s)) \o EscapeString(Tail(s))

\* strconv.FormatBool
FormatBool(b) == IF b THEN S_true ELSE S_false

RECURSIVE FormatUint(_)
\* strconv.FormatUint(n, 10)
FormatUint(n) ==
    IF n < 10 THEN <<48 + n>> ELSE Append(FormatUint(n \div 10), 48 + (n % 10))

\* The text of a string, bool or uint64 field.
MarshalSimple(f, v) ==
    CASE f.type = "string" -> v
      [] f.type = "bool" -> FormatBool(v)
      [] f.type = "uint64" -> FormatUint(v)

\* isEmptyValue: what ",omitempty" drops.
IsEmptyValue(f, v) ==
    CASE f.type = "string" -> Len(v) = 0
      [] f.type = "bool" -> ~v
      [] f.type = "uint64" -> v = 0
      [] f.type = "ptr" -> v = 0
      [] f.type = "slice" -> Len(v) = 0
      [] OTHER -> FALSE

\* Whether the ",attr" field f of rec is written.
AttrWritten(f, rec) == f.attr /\ ~(f.omitempty /\ IsEmptyValue(f, rec[f.field]))

RECURSIVE MarshalAttrsFrom(_, _, _)
\* The attributes of rec, in field declaration order, from field i on.
MarshalAttrsFrom(fs, rec, i) ==
    IF i > Len(fs) THEN <<>>
    ELSE LET f == fs[i]
             rest == MarshalAttrsFrom(fs, rec, i + 1)
         IN IF AttrWritten(f, rec)
            THEN <<[name |-> f.name,
                    value |-> EscapeString(MarshalSimple(f, rec[f.field]))]>> \o rest
            ELSE rest

MarshalAttrs(kind, rec) == MarshalAttrsFrom(Fields(kind), rec, 1)

RECURSIVE WrapParents(_, _)
\* The a>b>c tag: the children inside one element per parent name.
WrapParents(parents, kids) ==
    IF parents = <<>> THEN kids
    ELSE <<Element(Head(parents), <<>>, WrapParents(Tail(parents), kids))>>

RECURSIVE MarshalValue(_, _, _, _)
RECURSIVE MarshalField(_, _, _)
RECURSIVE MarshalChildrenFrom(_, _, _, _)

\* One struct as an element called name: its attributes, then its children.
MarshalValue(h, kind, rec, name) ==
    Element(name, MarshalAttrs(kind, rec), MarshalChildrenFrom(h, Fields(kind), rec, 1))

\* The elements one non-attribute field contributes.  A nil pointer writes
\* nothing, not even its parents; a slice writes its parents even when empty.
MarshalField(h, f, v) ==
    CASE f.type = "xmlname" -> <<>>
      [] f.type = "ptr" ->
            IF v = 0 THEN <<>>
            ELSE WrapParents(f.parents, <<MarshalValue(h, f.of, h[v], f.name)>>)
      [] f.type = "struct" ->
            WrapParents(f.parents, <<MarshalValue(h, f.of, v, f.name)>>)
      [] f.type = "slice" ->
            WrapParents(f.parents,
                        [i \in 1..Len(v) |-> MarshalValue(h, f.of, h[v[i]], f.name)])

MarshalChildrenFrom(h, fs, rec, i) ==
    IF i > Len(fs) THEN <<>>
    ELSE IF fs[i].attr THEN MarshalChildrenFrom(h, fs, rec, i + 1)
    ELSE MarshalField(h, fs[i], rec[fs[i].field]) \o MarshalChildrenFrom(h, fs, rec, i + 1)

\* The element name of a root: the tag of its XMLName field.
RootName(kind) == FieldOf(kind, "XMLName").name

\* xml.Marshal(root)
Marshal(h, root) == MarshalValue(h, h[root].kind, h[root], RootName(h[root].kind))

\* ----------------------------------------------- encoding/xml: Unmarshal
\* A decoded tree is a value: a pointer field holds <<>> (nil) or <<record>>,
\* a slice field the sequence of its records.
RECURSIVE ZeroV(_)
ZeroV(kind) ==
    [n \in FieldNames(kind) \cup {"kind"} |->
        IF n = "kind" THEN kind
        ELSE LET f == FieldOf(kind, n) IN
             CASE f.type = "string" -> Empty
               [] f.type = "bool" -> FALSE
               [] f.type = "uint64" -> 0
               [] f.type = "ptr" -> <<>>
               [] f.type = "slice" -> <<>>
               [] f.type = "struct" -> ZeroV(f.of)
               [] f.type = "xmlname" -> ""]

RECURSIVE ValueOf(_, _, _)
\* The tree below a heap record, as a value.
ValueOf(h, kind, rec) ==
    [n \in DOMAIN rec |->
        IF n = "kind" THEN kind
        ELSE LET f == FieldOf(kind, n)
                 v == rec[n]
             IN CASE f.type = "ptr" ->
                        IF v = 0 THEN <<>> ELSE <<ValueOf(h, f.of, h[v])>>
                  [] f.type = "slice" ->
                        [i \in 1..Len(v) |-> ValueOf(h, f.of, h[v[i]])]
                  [] f.type = "struct" -> ValueOf(h, f.of, v)
                  [] OTHER -> v]

Ok(v) == [ok |-> TRUE, val |-> v]
Bad == [ok |-> FALSE, val |-> <<>>]

\* The first index j >= i with s[j] = c, or 0.
IndexFrom(s, c, i) ==
    IF \E j \in i..Len(s) : s[j] = c
    THEN CHOOSE j \in i..Len(s) : s[j] = c /\ \A k \in i..(j - 1) : s[k] # c
    ELSE 0

DigitValue(c) ==
    CASE c >= 48 /\ c <= 57 -> c - 48
      [] c >= 97 /\ c <= 102 -> c - 87
      [] c >= 65 /\ c <= 70 -> c - 55
      [] OTHER -> 99

RECURSIVE ParseDigits(_, _, _)
\* The number the digits s spell in the given base on top of acc, -1 if s
\* holds anything else.
ParseDigits(s, base, acc) ==
    IF s = <<>> THEN acc
    ELSE IF DigitValue(Head(s)) >= base THEN -1
    ELSE ParseDigits(Tail(s), base, acc * base + DigitValue(Head(s)))

\* The code point of the entity between "&" and ";", -1 if there is none.
EntityRune(name) ==
    CASE name = <<108, 116>> -> 60                     \* lt
      [] name = <<103, 116>> -> 62                     \* gt
      [] name = <<97, 109, 112>> -> 38                 \* amp
      [] name = <<97, 112, 111, 115>> -> 39            \* apos
      [] name = <<113, 117, 111, 116>> -> 34           \* quot
      [] Len(name) >= 3 /\ name[1] = 35 /\ name[2] = 120 ->
            LET n == ParseDigits(SubSeq(name, 3, Len(name)), 16, 0)
            IN IF n > 1114111 THEN -1 ELSE n
      [] Len(name) >= 2 /\ name[1] = 35 /\ name[2] # 120 ->
            LET n == ParseDigits(SubSeq(name, 2, Len(name)), 10, 0)
            IN IF n > 1114111 THEN -1 ELSE n
      [] OTHER -> -1

Cons(r, res) == IF res.ok THEN Ok(<<r>> \o res.val) ELSE res

RECURSIVE UnescapeFrom(_, _)
\* The decoder's reading of a quoted attribute value from position i: entities
\* replaced, a raw "<" or quote refused, a raw CR or CR LF read as LF.
UnescapeFrom(t, i) ==
    IF i > Len(t) THEN Ok(<<>>)
    ELSE LET c == t[i] IN
         IF c = 38
         THEN LET j == IndexFrom(t, 59, i + 1)
                  r == IF j = 0 THEN -1 ELSE EntityRune(SubSeq(t, i + 1, j - 1))
              IN IF r < 0 THEN Bad ELSE Cons(r, UnescapeFrom(t, j + 1))
         ELSE IF c = 60 \/ c = 34 THEN Bad
         ELSE IF c = 13
         THEN Cons(10, UnescapeFrom(t, IF i < Len(t) /\ t[i + 1] = 10 THEN i + 2 ELSE i + 1))
         ELSE Cons(c, UnescapeFrom(t, i + 1))

\* The value of an attribute as the decoder's tokenizer hands it on; a code
\* point outside the Char production is a syntax error.
Unescape(t) ==
    LET r == UnescapeFrom(t, 1)
    IN IF r.ok /\ \A k \in DOMAIN r.val : InCharacterRange(r.val[k]) THEN r ELSE Bad

IsSpace(c) == c \in {9, 10, 11, 12, 13, 32, 133, 160}

RECURSIVE TrimLeft(_)
TrimLeft(s) == IF s # <<>> /\ IsSpace(Head(s)) THEN TrimLeft(Tail(s)) ELSE s

RECURSIVE TrimRight(_)
TrimRight(s) ==
    IF s # <<>> /\ IsSpace(s[Len(s)]) THEN TrimRight(SubSeq(s, 1, Len(s) - 1)) ELSE s

\* strings.TrimSpace
TrimSpace(s) == TrimRight(TrimLeft(s))

\* strconv.ParseBool
ParseBool(s) ==
    IF s \in {<<49>>, <<116>>, <<84>>, <<84, 82, 85, 69>>, S_true, <<84, 114, 117, 101>>}
    THEN Ok(TRUE)
    ELSE IF s \in {<<48>>, <<102>>, <<70>>, <<70, 65, 76, 83, 69>>, S_false,
                   <<70, 97, 108, 115, 101>>}
    THEN Ok(FALSE)
    ELSE Bad

\* strconv.ParseUint(s, 10, 64).  Its range error (2^64 and above) lies beyond
\* the sizes and documents of this model, which spell at most a few digits.
ParseUint(s) ==
    LET n == IF s = <<>> THEN -1 ELSE ParseDigits(s, 10, 0)
    IN IF n < 0 THEN Bad ELSE Ok(n)

\* copyValue: the text src into a field of f's type.  Empty text leaves a
\* bool or an integer at zero.
CopyValue(f, src) ==
    CASE f.type = "string" -> Ok(src)
      [] f.type = "bool" ->
            IF src = <<>> THEN Ok(FALSE) ELSE ParseBool(TrimSpace(src))
      [] f.type = "uint64" ->
            IF src = <<>> THEN Ok(0) ELSE ParseUint(TrimSpace(src))

\* The ",attr" fields of kind that an attribute called name fills.
AttrFields(kind, name) == {f \in AttrFieldsOf[kind] : f.name = name}

\* One attribute of the start element into the struct: an attribute no field
\* names is ignored.
ApplyAttr(val, kind, a) ==
    LET fs == AttrFields(kind, a.name) IN
    IF fs = {} THEN Ok(val)
    ELSE LET f == CHOOSE x \in fs : TRUE
             text == Unescape(a.value)
             v == IF text.ok THEN CopyValue(f, text.val) ELSE Bad
         IN IF v.ok THEN Ok([val EXCEPT ![f.field] = v.val]) ELSE Bad

RECURSIVE ApplyAttrs(_, _, _, _)
\* The attributes of the start element, in document order.  A field whose
\* attribute the element does not carry is not touched: it keeps the value it
\* had, and no error is raised.
ApplyAttrs(val, kind, attrs, i) ==
    IF i > Len(attrs) THEN Ok(val)
    ELSE LET r == ApplyAttr(val, kind, attrs[i])
         IN IF r.ok THEN ApplyAttrs(r.val, kind, attrs, i + 1) ELSE Bad

IsPrefix(p, s) == Len(p) <= Len(s) /\ SubSeq(s, 1, Len(p)) = p

\* The element fields of kind that a child called name fills, below path.
PathFields(kind, path, name) ==
    {f \in ElemFieldsOf[kind] : f.parents = path /\ f.name = name}

\* Whether a child called name, below path, is a parent element of some field.
IsParent(kind, path, name) ==
    \E f \in ElemFieldsOf[kind] :
        /\ Len(f.parents) > Len(path)
        /\ IsPrefix(path, f.parents) /\ f.parents[Len(path) + 1] = name

RECURSIVE UnmarshalInto(_, _, _)
RECURSIVE ApplyChild(_, _, _, _)
RECURSIVE ApplyChildren(_, _, _, _, _)

\* unmarshalPath: one child element into the field it matches, or through a
\* parent element into the fields below it; a child nothing matches is skipped.
ApplyChild(val, kind, path, kid) ==
    LET fs == PathFields(kind, path, kid.name) IN
    IF fs # {}
    THEN LET f == CHOOSE x \in fs : TRUE
             cur == val[f.field]
             base == CASE f.type = "ptr" -> IF cur = <<>> THEN ZeroV(f.of) ELSE cur[1]
                       [] f.type = "slice" -> ZeroV(f.of)
                       [] f.type = "struct" -> cur
             r == UnmarshalInto(base, f.of, kid)
         IN IF ~r.ok THEN Bad
            ELSE CASE f.type = "ptr" -> Ok([val EXCEPT ![f.field] = <<r.val>>])
                   [] f.type = "slice" -> Ok([val EXCEPT ![f.field] = Append(cur, r.val)])
                   [] f.type = "struct" -> Ok([val EXCEPT ![f.field] = r.val])
    ELSE IF IsParent(kind, path, kid.name)
    THEN ApplyChildren(val, kind, Append(path, kid.name), kid.children, 1)
    ELSE Ok(val)

ApplyChildren(val, kind, path, kids, i) ==
    IF i > Len(kids) THEN Ok(val)
    ELSE LET r == ApplyChild(val, kind, path, kids[i])
         IN IF r.ok THEN ApplyChildren(r.val, kind, path, kids, i + 1) ELSE Bad

\* Whether kind declares an XMLName field.
HasXMLName(kind) == "XMLName" \in DOMAIN FieldByName[kind]

\* unmarshal of one element into a struct: the name check against the XMLName
\* tag, which also records the name; the attributes; the children.
UnmarshalInto(val, kind, el) ==
    IF HasXMLName(kind) /\ RootName(kind) # el.name THEN Bad
    ELSE LET named == IF HasXMLName(kind) THEN [val EXCEPT !.XMLName = el.name] ELSE val
             a == ApplyAttrs(named, kind, el.attrs, 1)
         IN IF a.ok THEN ApplyChildren(a.val, kind, <<>>, el.children, 1) ELSE Bad

\* xml.Unmarshal(document, &T{}) for the root type kind.
Unmarshal(el, kind) == UnmarshalInto(ZeroV(kind), kind, el)

\* ---------------------------------------------------------------- actions
Built(h, op, recv, args) ==
    /\ Len(h) <= MaxObj
    /\ heap' = h
    /\ calls' = Append(calls, Call(op, recv, args, Len(h)))
    /\ UNCHANGED <<nAssign, doc, decoded>>

RequestAddApp ==
    \E r \in OfKind("Request"), id \in Strs, version \in Versions :
        Built(RequestAddAppHeap(heap, r, id, version), "Request.AddApp", r, <<id, version>>)

\* The id given to the next app of a response: a server answers for every
\* app once, so the apps of a response get ids of their own, the first two
\* the strings of Strs.  The ids of a request are free, repeats included.
NextID(h, r) ==
    LET n == Len(h[r].Apps)
    IN IF n = 0 THEN S_alt ELSE IF n = 1 THEN S_ff ELSE <<96 + n>>

ResponseAddApp ==
    \E r \in OfKind("Response"), status \in Statuses : \E id \in {NextID(heap, r)} :
        Built(ResponseAddAppHeap(heap, r, id, status), "Response.AddApp", r, <<id, status>>)

AddUpdateCheck ==
    \E a \in OfKind("App") :
        Built(AddUpdateCheckHeap(heap, a), "App.AddUpdateCheck", a, <<>>)

AddPing ==
    \E a \in OfKind("App") : Built(AddPingHeap(heap, a), "App.AddPing", a, <<>>)

AddEvent ==
    \E a \in OfKind("App") : Built(AddEventHeap(heap, a), "App.AddEvent", a, <<>>)

AddURL ==
    \E u \in OfKind("UpdateCheck"), codebase \in Strs :
        Built(AddURLHeap(heap, u, codebase), "UpdateCheck.AddURL", u, <<codebase>>)

AddManifest ==
    \E u \in OfKind("UpdateCheck"), version \in Versions :
        Built(AddManifestHeap(heap, u, version), "UpdateCheck.AddManifest", u, <<version>>)

AddPackage ==
    \E m \in OfKind("Manifest") :
        Built(AddPackageHeap(heap, m), "Manifest.AddPackage", m, <<>>)

AddAction ==
    \E m \in OfKind("Manifest"), event \in Events :
        Built(AddActionHeap(heap, m, event), "Manifest.AddAction", m, <<event>>)

\* A field assignment through a handle the caller kept: h.field = v.  The
\* fields and values tried are the ones below.
Assignments ==
    { [kind |-> "Event", field |-> "Type", value |-> S_alt],
      [kind |-> "Package", field |-> "Size", value |-> 12],
      [kind |-> "Package", field |-> "Required", value |-> TRUE],
      [kind |-> "Action", field |-> "Sha256", value |-> S_a],
      [kind |-> "Action", field |-> "NeedsAdmin", value |-> TRUE],
      [kind |-> "Action", field |-> "IsDelta", value |-> TRUE],
      [kind |-> "Action", field |-> "DisablePayloadBackoff", value |-> TRUE],
      [kind |-> "Action", field |-> "Deadline", value |-> S_a],
      [kind |-> "UpdateCheck", field |-> "Status", value |-> S_a],
      [kind |-> "Ping", field |-> "Status", value |-> S_a] }

AssignHeap(h, a, field, v) == [h EXCEPT ![a][field] = v]

Assign ==
    \E a \in Addrs, c \in Assignments :
        /\ heap[a].kind = c.kind
        /\ nAssign < MaxAssign
        /\ heap' = AssignHeap(heap, a, c.field, c.value)
        /\ nAssign' = nAssign + 1
        /\ UNCHANGED <<calls, doc, decoded>>

\* The state after construction: the caller holds the root NewRequest() or
\* NewResponse() returned.
InitRequest ==
    /\ \E ver \in LibVersions, p \in Platforms, a \in Archs :
          heap = NewRequestHeap(<<>>, ver, p, a)
    /\ calls = <<Call("NewRequest", 0, <<>>, Len(heap))>>

InitResponse ==
    /\ heap = NewResponseHeap(<<>>)
    /\ calls = <<Call("NewResponse", 0, <<>>, Len(heap))>>

Init ==
    /\ InitRequest \/ InitResponse
    /\ nAssign = 0
    /\ doc = <<>>
    /\ decoded = <<>>

Next ==
    \/ RequestAddApp
    \/ ResponseAddApp
    \/ AddUpdateCheck
    \/ AddPing
    \/ AddEvent
    \/ AddURL
    \/ AddManifest
    \/ AddPackage
    \/ AddAction
    \/ Assign

Spec == Init /\ [][Next]_vars

\* ------------------------------------------------------------- decoding
\* A peer's document reaches the decoder: a serialised tree from which the
\* peer may have left attributes out.

\* A response carrying one of everything below it.
SampleResponse(id, size, required) ==
    LET h1 == ResponseAddAppHeap(NewResponseHeap(<<>>), 1, id, S_a)
        h2 == AssignHeap(AssignHeap(AddEventHeap(h1, 2), 3, "Type", S_a), 3, "Result", S_1)
        h3 == AddManifestHeap(AddUpdateCheckHeap(h2, 2), 4, S_1)
        h4 == AddPackageHeap(h3, 5)
        h5 == AssignHeap(AssignHeap(AssignHeap(AssignHeap(h4, 6, "Hash", S_alt),
                  6, "Name", S_a), 6, "Size", size), 6, "Required", required)
    IN AddActionHeap(h5, 5, S_a)

\* A request reporting one event.
SampleRequest(id) ==
    LET h1 == RequestAddAppHeap(NewRequestHeap(<<>>, S_1, S_a, S_a), 2, id, S_1)
    IN AssignHeap(AssignHeap(AddEventHeap(h1, 3), 4, "Type", S_a), 4, "Result", S_1)

SampleDocs ==
    {Marshal(SampleResponse(id, size, required), 1) :
        id \in {S_a, S_alt}, size \in {7, 12}, required \in BOOLEAN}
    \cup {Marshal(SampleRequest(id), 2) : id \in {S_a, S_alt}}

\* The attributes the protocol treats as mandatory: <<element, attribute>>.
Mandatory ==
    { <<"event", "eventtype">>, <<"event", "eventresult">>,
      <<"manifest", "version">>,
      <<"package", "hash">>, <<"package", "name">>, <<"package", "size">>,
      <<"action", "event">> }

RECURSIVE DropFrom(_, _)
DropFrom(attrs, name) ==
    IF attrs = <<>> THEN <<>>
    ELSE IF Head(attrs).name = name THEN DropFrom(Tail(attrs), name)
    ELSE <<Head(attrs)>> \o DropFrom(Tail(attrs), name)

RECURSIVE DropAttrIn(_, _, _)
\* The document without attribute name on the elements called ename.
DropAttrIn(el, ename, name) ==
    Element(el.name,
            IF el.name = ename THEN DropFrom(el.attrs, name) ELSE el.attrs,
            [i \in 1..Len(el.children) |-> DropAttrIn(el.children[i], ename, name)])

RECURSIVE Carries(_, _, _)
\* Whether some element called ename carries attribute name.
Carries(el, ename, name) ==
    \/ el.name = ename /\ \E i \in DOMAIN el.attrs : el.attrs[i].name = name
    \/ \E i \in DOMAIN el.children : Carries(el.children[i], ename, name)

RECURSIVE Holds(_, _)
\* Whether the document holds an element called ename.
Holds(el, ename) ==
    el.name = ename \/ \E i \in DOMAIN el.children : Holds(el.children[i], ename)

InitDecode ==
    /\ heap = <<>>
    /\ calls = <<>>
    /\ nAssign = 0
    /\ doc \in SampleDocs
    /\ decoded = <<>>

\* The peer left one mandatory attribute out.
DropAttr ==
    \E m \in Mandatory :
        /\ decoded = <<>>
        /\ Carries(doc, m[1], m[2])
        /\ doc' = DropAttrIn(doc, m[1], m[2])
        /\ UNCHANGED <<heap, calls, nAssign, decoded>>

\* xml.Unmarshal(doc, &Request{}) or xml.Unmarshal(doc, &Response{})
Decode ==
    \E kind \in {"Request", "Response"} :
        /\ decoded = <<>>
        /\ decoded' = <<[kind |-> kind, res |-> Unmarshal(doc, kind)]>>
        /\ UNCHANGED <<heap, calls, nAssign, doc>>

NextDecode == DropAttr \/ Decode

SpecDecode == InitDecode /\ [][NextDecode]_vars

\* =================================================================== claims
Last(s) == s[Len(s)]

\* The calls of builder op on receiver recv, in call order.
CallsOf(op, recv) == SelectSeq(calls, LAMBDA c : c.op = op /\ c.recv = recv)

\* Whether this step is a call of builder op; TheCall is that call.
IsCall(op) == Len(calls') = Len(calls) + 1 /\ calls'[Len(calls')].op = op
TheCall == calls'[Len(calls')]

\* The values of the attributes called name among attrs.
AttrVals(attrs, name) ==
    LET hit == SelectSeq(attrs, LAMBDA a : a.name = name)
    IN [i \in 1..Len(hit) |-> hit[i].value]

AttrNamesOf(attrs) == {attrs[i].name : i \in DOMAIN attrs}

Roots == OfKind("Request") \cup OfKind("Response")

\* ---------------------------------------------------------------------- C1
\* C1: in every reachable state every UpdateCheck has URLs nil or pointing at
\* a URLs wrapper that holds at least one URL; no wrapper is ever empty.
C1_URLsNilOrNonEmpty ==
    /\ \A u \in OfKind("UpdateCheck") :
          \/ heap[u].URLs = 0
          \/ /\ heap[u].URLs \in OfKind("URLs")
             /\ Len(heap[heap[u].URLs].URLs) >= 1
    /\ \A w \in OfKind("URLs") : Len(heap[w].URLs) >= 1

\* One UpdateCheck with URLs added and one without.
C1_Witness ==
    /\ \E u \in OfKind("UpdateCheck") : heap[u].URLs # 0
    /\ \E u \in OfKind("UpdateCheck") : heap[u].URLs = 0

\* ---------------------------------------------------------------------- C5
\* The sequence field of every record of kind holds exactly the handles the
\* calls of op on it returned, in call order.
AppendsInCallOrder(op, kind, field) ==
    \A r \in OfKind(kind) :
        LET cs == CallsOf(op, r)
        IN /\ Len(heap[r][field]) = Len(cs)
           /\ \A k \in DOMAIN cs : heap[r][field][k] = cs[k].ret

\* The record every call of op returned carries argument i of the call in field.
CarriesArg(op, i, field) ==
    \A k \in DOMAIN calls :
        calls[k].op = op => heap[calls[k].ret][field] = calls[k].args[i]

\* C5: Request.Apps has exactly one entry per Request.AddApp call, in call
\* order, the k-th entry carrying the id and version of the k-th call, ids
\* repeated or not; the same append-at-end rule holds for Response.AddApp,
\* App.AddEvent, Manifest.AddPackage and Manifest.AddAction.
C5_AppendInCallOrder ==
    /\ AppendsInCallOrder("Request.AddApp", "Request", "Apps")
    /\ CarriesArg("Request.AddApp", 1, "Id")
    /\ CarriesArg("Request.AddApp", 2, "Version")
    /\ AppendsInCallOrder("Response.AddApp", "Response", "Apps")
    /\ CarriesArg("Response.AddApp", 1, "Id")
    /\ CarriesArg("Response.AddApp", 2, "Status")
    /\ AppendsInCallOrder("App.AddEvent", "App", "Events")
    /\ AppendsInCallOrder("Manifest.AddPackage", "Manifest", "Packages")
    /\ AppendsInCallOrder("Manifest.AddAction", "Manifest", "Actions")
    /\ CarriesArg("Manifest.AddAction", 1, "Event")

\* A request given the same id twice, with another builder call in between.
C5_Witness ==
    \E r \in OfKind("Request") :
        /\ Len(heap[r].Apps) = 2
        /\ heap[heap[r].Apps[1]].Id = heap[heap[r].Apps[2]].Id
        /\ heap[r].Apps[2] > heap[r].Apps[1] + 1

\* ---------------------------------------------------------------------- C9
\* C9: no builder call changes the root metadata: every Response keeps
\* Protocol "3.0", Server "mantle" and DayStart.ElapsedSeconds "0"; every
\* Request keeps Protocol "3.0" and a non-nil OS; right after NewRequest() the
\* Apps sequence is empty.
C9_RootMetadataFixed ==
    /\ \A r \in OfKind("Response") :
          /\ heap[r].Protocol = S_30
          /\ heap[r].Server = S_mantle
          /\ heap[r].DayStart.ElapsedSeconds = S_0
    /\ \A r \in OfKind("Request") :
          /\ heap[r].Protocol = S_30
          /\ heap[r].OS \in OfKind("OS")
    /\ (calls # <<>> /\ Last(calls).op = "NewRequest")
          => heap[Last(calls).ret].Apps = <<>>

\* A response built upon down to a package.
C9_Witness ==
    \E r \in OfKind("Response") :
        /\ Len(heap[r].Apps) = 2
        /\ heap[heap[r].Apps[1]].UpdateCheck # 0
        /\ OfKind("Package") # {}

\* ---------------------------------------------------------------------- C7
\* The step allocated exactly the record rec at the returned handle, put it in
\* the slot field of the receiver, and changed nothing else: no other field of
\* the receiver and no other record, the replaced one included.
Replaces(field, rec) ==
    LET c == TheCall IN
    /\ Len(heap') = Len(heap) + 1
    /\ c.ret = Len(heap')
    /\ heap'[c.ret] = rec
    /\ heap'[c.recv][field] = c.ret
    /\ [heap'[c.recv] EXCEPT ![field] = 0] = [heap[c.recv] EXCEPT ![field] = 0]
    /\ \A a \in Addrs \ {c.recv} : heap'[a] = heap[a]

\* C7: AddManifest(v) installs a manifest with Version v and no packages or
\* actions whatever was attached before, leaving URLs, Status and
\* TargetVersionPrefix alone; AddPing and AddUpdateCheck install a zero record
\* and leave the other fields of the App alone.
C7_SlotsReplaced ==
    [][ /\ IsCall("UpdateCheck.AddManifest") =>
              Replaces("Manifest", [ZeroManifest EXCEPT !.Version = TheCall.args[1]])
        /\ IsCall("App.AddPing") => Replaces("Ping", ZeroPing)
        /\ IsCall("App.AddUpdateCheck") => Replaces("UpdateCheck", ZeroUpdateCheck)
      ]_vars

\* A manifest holding a package was replaced on an UpdateCheck whose Status is set.
C7_Witness ==
    \E u \in OfKind("UpdateCheck") :
        LET cs == CallsOf("UpdateCheck.AddManifest", u)
        IN /\ Len(cs) = 2
           /\ Len(heap[cs[1].ret].Packages) = 1
           /\ heap[u].Manifest = cs[2].ret
           /\ heap[u].Status = S_a

\* --------------------------------------------------------------------- C10
\* Every place that refers to a record: <<holder, field, index, record>>.
Refs(h) ==
    UNION { UNION { LET v == h[p][f.field] IN
                    CASE f.type = "ptr" -> IF v = 0 THEN {} ELSE {<<p, f.field, 0, v>>}
                      [] f.type = "slice" -> {<<p, f.field, i, v[i]>> : i \in DOMAIN v}
                      [] OTHER -> {}
                  : f \in Range(Fields(h[p].kind)) }
          : p \in 1..Len(h) }

\* No record is referred to from two places, and every reference has the
\* type of its field (which rules out cycles: the types form a tree).
Exclusive(h) ==
    /\ \A x, y \in Refs(h) : x[4] = y[4] => x = y
    /\ \A x \in Refs(h) :
          /\ x[4] \in 1..Len(h)
          /\ h[x[4]].kind = FieldOf(h[x[1]].kind, x[2]).of

\* Where the handle a builder call returns must sit.
Attached(h, c) ==
    CASE c.op \in {"Request.AddApp", "Response.AddApp"} -> Last(h[c.recv].Apps) = c.ret
      [] c.op = "App.AddEvent" -> Last(h[c.recv].Events) = c.ret
      [] c.op = "App.AddPing" -> h[c.recv].Ping = c.ret
      [] c.op = "App.AddUpdateCheck" -> h[c.recv].UpdateCheck = c.ret
      [] c.op = "UpdateCheck.AddManifest" -> h[c.recv].Manifest = c.ret
      [] c.op = "UpdateCheck.AddURL" -> Last(h[h[c.recv].URLs].URLs) = c.ret
      [] c.op = "Manifest.AddPackage" -> Last(h[c.recv].Packages) = c.ret
      [] c.op = "Manifest.AddAction" -> Last(h[c.recv].Actions) = c.ret
      [] OTHER -> TRUE

\* A builder step: the handle is a record that did not exist, and every
\* record that did keeps its values and its entries at their positions.
BuilderFrame ==
    /\ TheCall.ret \notin Addrs
    /\ Attached(heap', TheCall)
    /\ \A a \in Addrs : \A f \in Range(Fields(heap[a].kind)) :
          CASE f.type = "slice" -> IsPrefix(heap[a][f.field], heap'[a][f.field])
            [] f.type = "ptr" -> TRUE
            [] OTHER -> heap'[a][f.field] = heap[a][f.field]

\* An assignment through a handle changes one record at most (none when it
\* assigns the value the field holds) and no reference.
AssignFrame ==
    /\ Len(heap') = Len(heap)
    /\ Cardinality({a \in Addrs : heap'[a] # heap[a]}) <= 1
    /\ Refs(heap') = Refs(heap)

\* C10: the structure stays a tree with exclusive ownership: each Add* call
\* attaches a fresh record at the place its handle names, no record is
\* referred to from two places, an assignment through a handle changes that
\* record only, and what was assigned stays visible at its position while the
\* sequence around it grows.
C10_ExclusiveTree ==
    [][ /\ Exclusive(heap')
        /\ Len(calls') = Len(calls) + 1 => BuilderFrame
        /\ nAssign' # nAssign => AssignFrame
      ]_vars

\* A package assigned through its handle, still first after the sequence grew.
C10_Witness ==
    \E m \in OfKind("Manifest") :
        /\ Len(heap[m].Packages) = 2
        /\ heap[heap[m].Packages[1]].Size = 12
        /\ heap[heap[m].Packages[2]].Size = 0

\* ---------------------------------------------------------------------- C2
\* U+FFFD in place of every code point XML cannot hold.
SanitizeString(s) == [i \in 1..Len(s) |-> IF InCharacterRange(s[i]) THEN s[i] ELSE 65533]

RECURSIVE Sanitized(_, _)
\* The value val of type kind with every string sanitized.
Sanitized(kind, val) ==
    [n \in DOMAIN val |->
        IF n = "kind" THEN kind
        ELSE LET f == FieldOf(kind, n)
                 v == val[n]
             IN CASE f.type = "string" -> SanitizeString(v)
                  [] f.type \in {"ptr", "slice"} ->
                        [i \in 1..Len(v) |-> Sanitized(f.of, v[i])]
                  [] f.type = "struct" -> Sanitized(f.of, v)
                  [] OTHER -> v]

\* Equal in every field but the XMLName the decoder records.
SameTree(a, b) == [a EXCEPT !.XMLName = ""] = [b EXCEPT !.XMLName = ""]

Original(r) == ValueOf(heap, heap[r].kind, heap[r])
RoundTrip(r) == Unmarshal(Marshal(heap, r), heap[r].kind)

\* C2 as stated: serialising and deserialising any built tree gives back a
\* tree equal to the original in every field, sequences in order and length.
C2_RoundTripExact ==
    \A r \in Roots :
        LET back == RoundTrip(r) IN back.ok /\ SameTree(back.val, Original(r))

\* C2 amended: the round trip succeeds and gives back the original tree with
\* every code point that is no XML character replaced by U+FFFD; for a tree
\* whose strings hold XML characters only it gives back the original tree.
C2_RoundTripUpToXMLChars ==
    \A r \in Roots :
        LET back == RoundTrip(r)
            orig == Original(r)
            clean == Sanitized(heap[r].kind, orig)
        IN /\ back.ok
           /\ SameTree(back.val, clean)
           /\ clean = orig => SameTree(back.val, orig)

\* A response down to a package with a size set, with an id that needs
\* escaping, all of XML characters.
C2_Witness ==
    \E r \in OfKind("Response") :
        /\ Sanitized("Response", Original(r)) = Original(r)
        /\ Len(heap[r].Apps) = 1
        /\ LET a == heap[heap[r].Apps[1]] IN
           /\ a.Id = S_alt
           /\ a.UpdateCheck # 0
           /\ heap[a.UpdateCheck].Manifest # 0
           /\ LET m == heap[heap[a.UpdateCheck].Manifest] IN
              Len(m.Packages) = 1 /\ heap[m.Packages[1]].Size = 12

\* ---------------------------------------------------------------------- C3
ActionAttrs(a) == MarshalAttrs("Action", heap[a])

\* Attribute name is written for action a exactly when cond, with value text.
WrittenIff(a, name, cond, text) ==
    AttrVals(ActionAttrs(a), name) = IF cond THEN <<EscapeString(text)>> ELSE <<>>

\* C3 as stated: ChromeOSVersion, sha256, DisablePayloadBackoff,
\* MetadataSignatureRsa, MetadataSize and deadline are each left out of a
\* serialised Action whenever the field is empty.
C3_AllSixOmittedWhenEmpty ==
    \A a \in OfKind("Action") :
        /\ heap[a].ChromeOSVersion = Empty => "ChromeOSVersion" \notin AttrNamesOf(ActionAttrs(a))
        /\ heap[a].Sha256 = Empty => "sha256" \notin AttrNamesOf(ActionAttrs(a))
        /\ ~heap[a].DisablePayloadBackoff => "DisablePayloadBackoff" \notin AttrNamesOf(ActionAttrs(a))
        /\ heap[a].MetadataSignatureRsa = Empty => "MetadataSignatureRsa" \notin AttrNamesOf(ActionAttrs(a))
        /\ heap[a].MetadataSize = Empty => "MetadataSize" \notin AttrNamesOf(ActionAttrs(a))
        /\ heap[a].Deadline = Empty => "deadline" \notin AttrNamesOf(ActionAttrs(a))

\* C3 amended: DisablePayloadBackoff, MetadataSignatureRsa, MetadataSize and
\* deadline are written exactly when the field is not empty, with the value
\* set; event, ChromeOSVersion, sha256, needsadmin and IsDelta are always
\* written, ChromeOSVersion and sha256 as "" when empty.
C3_FourOmittedWhenEmpty ==
    \A a \in OfKind("Action") :
        /\ WrittenIff(a, "DisablePayloadBackoff", heap[a].DisablePayloadBackoff, S_true)
        /\ WrittenIff(a, "MetadataSignatureRsa", heap[a].MetadataSignatureRsa # Empty,
                      heap[a].MetadataSignatureRsa)
        /\ WrittenIff(a, "MetadataSize", heap[a].MetadataSize # Empty, heap[a].MetadataSize)
        /\ WrittenIff(a, "deadline", heap[a].Deadline # Empty, heap[a].Deadline)
        /\ WrittenIff(a, "event", TRUE, heap[a].Event)
        /\ WrittenIff(a, "ChromeOSVersion", TRUE, heap[a].ChromeOSVersion)
        /\ WrittenIff(a, "sha256", TRUE, heap[a].Sha256)
        /\ Len(AttrVals(ActionAttrs(a), "needsadmin")) = 1
        /\ Len(AttrVals(ActionAttrs(a), "IsDelta")) = 1

\* An action as AddAction left it beside one whose deadline was set.
C3_Witness ==
    \E a, b \in OfKind("Action") :
        /\ heap[a] = [ZeroAction EXCEPT !.Event = heap[a].Event]
        /\ heap[b].Deadline = S_a
        /\ heap[b].ChromeOSVersion = Empty

\* ---------------------------------------------------------------------- C8
PackageAttrs(p) == MarshalAttrs("Package", heap[p])

\* C8 as stated: required, needsadmin and IsDelta read "0" for false and "1"
\* for true, DisablePayloadBackoff is absent when false, size is a
\* non-negative integer.
C8_BoolsAsDigits ==
    /\ \A p \in OfKind("Package") :
          /\ AttrVals(PackageAttrs(p), "required") = <<IF heap[p].Required THEN S_1 ELSE S_0>>
          /\ AttrVals(PackageAttrs(p), "size") = <<FormatUint(heap[p].Size)>>
    /\ \A a \in OfKind("Action") :
          /\ AttrVals(ActionAttrs(a), "needsadmin") = <<IF heap[a].NeedsAdmin THEN S_1 ELSE S_0>>
          /\ AttrVals(ActionAttrs(a), "IsDelta") = <<IF heap[a].IsDelta THEN S_1 ELSE S_0>>
          /\ ~heap[a].DisablePayloadBackoff =>
                AttrVals(ActionAttrs(a), "DisablePayloadBackoff") = <<>>

\* C8 amended: required, needsadmin and IsDelta read "false" and "true";
\* DisablePayloadBackoff is absent when false and reads "true" otherwise; size
\* is the decimal numeral of Size, a non-negative integer.
C8_BoolsAsWords ==
    /\ \A p \in OfKind("Package") :
          /\ AttrVals(PackageAttrs(p), "required") =
                <<IF heap[p].Required THEN S_true ELSE S_false>>
          /\ LET size == AttrVals(PackageAttrs(p), "size") IN
             /\ Len(size) = 1
             /\ \A i \in DOMAIN size[1] : size[1][i] \in 48..57
             /\ ParseUint(size[1]) = Ok(heap[p].Size)
             /\ heap[p].Size >= 0
    /\ \A a \in OfKind("Action") :
          /\ AttrVals(ActionAttrs(a), "needsadmin") =
                <<IF heap[a].NeedsAdmin THEN S_true ELSE S_false>>
          /\ AttrVals(ActionAttrs(a), "IsDelta") =
                <<IF heap[a].IsDelta THEN S_true ELSE S_false>>
          /\ AttrVals(ActionAttrs(a), "DisablePayloadBackoff") =
                IF heap[a].DisablePayloadBackoff THEN <<S_true>> ELSE <<>>

\* A required package beside an action left at false.
C8_Witness ==
    /\ \E p \in OfKind("Package") : heap[p].Required
    /\ \E a \in OfKind("Action") : ~heap[a].NeedsAdmin /\ ~heap[a].DisablePayloadBackoff

\* ---------------------------------------------------------------------- C6
\* The urls elements an UpdateCheck serialises.
URLsElements(u) ==
    SelectSeq(MarshalValue(heap, "UpdateCheck", heap[u], "updatecheck").children,
              LAMBDA e : e.name = "urls")

\* The codebase arguments of the AddURL calls on u, in call order.
CodeBases(u) ==
    LET cs == CallsOf("UpdateCheck.AddURL", u) IN [k \in 1..Len(cs) |-> cs[k].args[1]]

\* An UpdateCheck serialised alone and deserialised.
UpdateCheckBack(u) ==
    UnmarshalInto(ZeroV("UpdateCheck"), "UpdateCheck",
                  MarshalValue(heap, "UpdateCheck", heap[u], "updatecheck"))

\* u serialises no urls element when AddURL was never called on it, and
\* otherwise one urls element whose url children carry, as their only
\* attribute, codebase values that read the wanted strings, in call order;
\* after one call the UpdateCheck read back holds exactly that one entry.
URLsSerialised(u, wanted) ==
    LET urls == URLsElements(u)
    IN IF wanted = <<>> THEN urls = <<>>
       ELSE /\ Len(urls) = 1
            /\ urls[1].attrs = <<>>
            /\ Len(urls[1].children) = Len(wanted)
            /\ \A k \in DOMAIN wanted :
                  LET e == urls[1].children[k] IN
                  /\ e.name = "url" /\ e.children = <<>>
                  /\ Len(e.attrs) = 1 /\ e.attrs[1].name = "codebase"
                  /\ Unescape(e.attrs[1].value) = Ok(wanted[k])
            /\ Len(wanted) = 1 =>
                  /\ UpdateCheckBack(u).ok
                  /\ UpdateCheckBack(u).val.URLs =
                        <<[kind |-> "URLs",
                           URLs |-> <<[kind |-> "URL", CodeBase |-> wanted[1]]>>]>>

\* C6 as stated: no urls element without AddURL; after n >= 1 calls one urls
\* element with n url children whose codebase attributes are the arguments
\* in call order; with n = 1 the round trip gives exactly that entry.
C6_URLsAsGiven == \A u \in OfKind("UpdateCheck") : URLsSerialised(u, CodeBases(u))

\* C6 amended: the same, the codebase attributes being the arguments with
\* every code point that is no XML character replaced by U+FFFD (so the
\* arguments themselves when they hold XML characters only).
C6_URLsUpToXMLChars ==
    \A u \in OfKind("UpdateCheck") :
        URLsSerialised(u, [k \in DOMAIN CodeBases(u) |-> SanitizeString(CodeBases(u)[k])])

\* An UpdateCheck given two different URLs, the first one needing an escape.
C6_Witness ==
    \E v \in OfKind("UpdateCheck") :
        /\ Len(CodeBases(v)) = 2
        /\ CodeBases(v)[1] = S_alt /\ CodeBases(v)[2] = S_ff

\* ---------------------------------------------------------------------- C4
\* The decoder was asked for the type the document's root names.
RightRoot == decoded # <<>> /\ doc.name = RootName(decoded[1].kind)

Lacks(m) == Holds(doc, m[1]) /\ ~Carries(doc, m[1], m[2])

\* C4 as stated: a document in which a mandatory attribute is missing is
\* never decoded successfully.
C4_MissingAttributeFails ==
    (decoded # <<>> /\ \E m \in Mandatory : Lacks(m)) => ~decoded[1].res.ok

\* The records of the decoded sample that hold the mandatory fields.
EventIn(val) == val.Apps[1].Events[1]
ManifestIn(val) == val.Apps[1].UpdateCheck[1].Manifest[1]
PackageIn(val) == ManifestIn(val).Packages[1]
ActionIn(val) == ManifestIn(val).Actions[1]

\* C4 amended: a missing mandatory attribute is not an error: decoding
\* succeeds and the field holds its zero value exactly when the attribute is
\* missing; the decoder fails when the root element is not the one asked for.
C4_MissingAttributeIsZero ==
    decoded # <<>> =>
        IF ~RightRoot THEN ~decoded[1].res.ok
        ELSE LET val == decoded[1].res.val IN
             /\ decoded[1].res.ok
             /\ (EventIn(val).Type = Empty) <=> Lacks(<<"event", "eventtype">>)
             /\ (EventIn(val).Result = Empty) <=> Lacks(<<"event", "eventresult">>)
             /\ Holds(doc, "manifest") =>
                   /\ (ManifestIn(val).Version = Empty) <=> Lacks(<<"manifest", "version">>)
                   /\ (PackageIn(val).Hash = Empty) <=> Lacks(<<"package", "hash">>)
                   /\ (PackageIn(val).Name = Empty) <=> Lacks(<<"package", "name">>)
                   /\ (PackageIn(val).Size = 0) <=> Lacks(<<"package", "size">>)
                   /\ (ActionIn(val).Event = Empty) <=> Lacks(<<"action", "event">>)

\* A response without its manifest version and package size was decoded.
C4_Witness ==
    /\ RightRoot
    /\ decoded[1].res.ok
    /\ Lacks(<<"manifest", "version">>)
    /\ Lacks(<<"package", "size">>)
    /\ Carries(doc, "package", "hash")

=============================================================================
